---- MODULE Spec2Model ----
(***************************************************************************)
(* SessionManager (src/sessionManager.js): the connection lifecycle with   *)
(* its reconnect timers and asynchronous teardown, and the per-correspon-  *)
(* dent conversation memory with its wipe-all eviction, the auto-reply     *)
(* path through the completion provider, and the one-hour cache of the     *)
(* provider's model list.                                                  *)
(*                                                                         *)
(* Node runs every handler to its first await; what follows an await is a  *)
(* separate step taken when the awaited promise settles.  One action is    *)
(* one such run-to-completion step.                                        *)
(***************************************************************************)
EXTENDS Integers, Sequences, FiniteSets, Bags, TLC

(* ------------------------------ bounds --------------------------------- *)

\* Client objects that can be alive (constructed, not torn down) at one time.
MaxClients == 2

\* destroySession calls that can be awaiting client.destroy() at one time.
MaxDestroys == 2

\* startSession calls that can be awaiting client.initialize() at one time.
MaxInits == 2

\* Scheduled reconnect timers whose handle this.reconnectTimeout no longer holds.
MaxOrphans == 1

\* Saturation of the history counter of consecutive disconnected events.
MaxDiscCount == 6

\* Correspondents, besides the one of Deep, that are written to once each.
MaxFillers == 51

\* Turns appended for a correspondent of Deep between two evictions.
MaxTurns == 12

\* Assistant turns among them.
MaxAssistant == 1

\* handleIncomingMessage calls that can be awaiting the completion provider
\* or msg.reply at one time.
MaxHandlers == 1

\* Inbound messages a correspondent sends in the session followed together
\* with its lifecycle (SpecIso).
MaxIsoTurns == 1

\* Hours the clock runs past the construction.
MaxHours == 2

\* getGroqModels calls that can be awaiting the provider at one time.
MaxFetches == 2

(* ------------------------- program constants --------------------------- *)

\* slice(-10): the turns kept per correspondent.
MaxHistory == 10

\* users.length > 50: the correspondents kept before everything is wiped.
MaxUsers == 50

\* The correspondent whose conversation is followed at length, the ones that
\* only fill the mapping, and the sender 'status@broadcast'.
Deep == {0}

Fillers == 1..MaxFillers

StatusBroadcast == -1

Correspondents == Deep \cup Fillers

Bodies == {"hi"}

ReplyText == "re"

\* settings.openai_key as the settings table can hold it ("" stands for absent).
ApiKeys == {"", "sk"}

maxReconnectAttempts == 5

NoClient == 0

Slots == 1..MaxClients

\* What a pending client.destroy() was called on: a client that is alive, or
\* (Gone) one that another destroy() has torn down meanwhile.
Gone == 0

Targets == Slots \cup {Gone}

\* Who is awaiting client.destroy(): destroySession called by the application,
\* by the reconnect timer (startSession follows), or by the disconnected
\* handler at the retry cap.
Origins == {"call", "timer", "max"}

\* settings.system_prompt, as the leading entry of a prompt.
SystemPrompt == [role |-> "system", content |-> "sys"]

\* (now - timestamp) < 3600000: the age below which the model list is served
\* from the cache.
Hour == 3600000

\* Date.now() when the manager is constructed (any positive number of ms).
Boot == 1

\* The readings of Date.now() that are told apart: around every whole hour
\* after the construction.
Times == {t \in {Boot + h * Hour + d : h \in 0..MaxHours, d \in {-1, 0, 1}} : t >= Boot}

\* What the provider answers with: data.data, [] when it is missing or empty.
ModelLists == {<<>>, <<"m1">>, <<"m2">>}

\* What a fetch ends with: a rejection (of fetch or of json()), or a list.
FetchOutcomes ==
    {[ok |-> FALSE, list |-> <<>>]} \cup {[ok |-> TRUE, list |-> l] : l \in ModelLists}

VARIABLES
    status,             \* this.status
    client,             \* this.client: NoClient or the slot of the client object
    qrCode,             \* this.qrCode: "null" or a code
    reconnectAttempts,  \* this.reconnectAttempts
    reconnectTimeout,   \* this.reconnectTimeout: "null", or the handle of a timer
                        \* that is "pending" or "done" (fired or cancelled)
    orphanTimers,       \* pending timers whose handle was overwritten
    clients,            \* the slots of the client objects that are alive
    initPending,        \* startSession calls awaiting client.initialize()
    pendingDestroy,     \* <<target, origin>> -> destroySession calls awaiting destroy()
    thenStart,          \* the timer's .then(() => this.startSession()) is queued
    returned,           \* history: whose destroySession call returned in the last
                        \* step ("none": no call returned)
    discSinceReady,     \* history: disconnected events since the last ready (saturating)
    timersSinceReady,   \* history: reconnect timers scheduled since the last ready
    userContext,        \* this.userContext: correspondent -> sequence of turns
    settingsCache,      \* this.settingsCache
    awaitingLlm,        \* correspondent -> handlers awaiting the completion provider
    awaitingSend,       \* correspondent -> handlers awaiting msg.reply(reply)
    appended,           \* history: correspondent -> the turns appended for it since
                        \* the mapping was last wiped
    evicted,            \* history: the latest cleanupContext wiped the mapping
    handed,             \* history: the messages handed to the completion provider
                        \* by the latest step that changed the memory or its
                        \* handlers (<<>>: that step made no call)
    outcome,            \* history: what that step did
    modelsCache,        \* this.modelsCache: [data, timestamp]
    now,                \* Date.now()
    fetching,           \* the bag of the call times of the getGroqModels calls
                        \* awaiting the provider
    result,             \* history: what the latest getGroqModels step did: returned
                        \* a list from the "cache" or after the "provider" settled,
                        \* or made the "call" of the provider ("none": no step yet)
    lastFetched         \* history: the list and the call time of the latest call
                        \* that fetched a non-empty list (<<>> and 0: none yet)

life == <<status, client, qrCode, reconnectAttempts, reconnectTimeout, orphanTimers,
          clients, initPending, pendingDestroy, thenStart>>

counters == <<discSinceReady, timersSinceReady>>

mem == <<userContext, settingsCache, awaitingLlm, awaitingSend, appended, evicted,
         handed, outcome>>

groq == <<modelsCache, now, fetching, result, lastFetched>>

vars == <<life, returned, counters, mem, groq>>

(* ------------------------------ helpers -------------------------------- *)

Min(a, b) == IF a < b THEN a ELSE b

\* A client that has been constructed and not torn down can emit events.
HasLive == clients # {}

PendingOn(pd, t) == pd[<<t, "call">>] + pd[<<t, "timer">>] + pd[<<t, "max">>]

RECURSIVE SumPending(_, _)
SumPending(pd, S) ==
    IF S = {} THEN 0
    ELSE LET t == CHOOSE x \in S : TRUE
         IN  PendingOn(pd, t) + SumPending(pd, S \ {t})

PendingTotal(pd) == SumPending(pd, Targets)

FreeSlots(cl) == Slots \ cl

\* new Client(...): the object takes the lowest unused slot.
NewSlot(cl) == CHOOSE c \in FreeSlots(cl) : \A d \in FreeSlots(cl) : c <= d

\* clearTimeout(this.reconnectTimeout): cancels the timer the handle names if it
\* is still pending; the handle itself is kept.
ClearTimeout(rt) == IF rt = "pending" THEN "done" ELSE rt

\* Reconnect timers scheduled and neither fired nor cancelled.
TimersOutstanding == orphanTimers + (IF reconnectTimeout = "pending" THEN 1 ELSE 0)

\* Mutants of the retry-cap test: inclusive, and one attempt short.
CanReconnect_Inclusive(ra) == ra <= maxReconnectAttempts

CanReconnect_OneShort(ra) == ra < maxReconnectAttempts - 1

\* this.reconnectAttempts < this.maxReconnectAttempts
CanReconnect(ra) == ra < maxReconnectAttempts

\* Mutant: the attempt is not counted.
NextAttempts_NotCounted(ra) == ra

\* this.reconnectAttempts++
NextAttempts(ra) == ra + 1

\* Mutant: nothing follows the timer's destroySession.
Continues_Never(origin) == FALSE

\* this.destroySession().then(() => { this.startSession(); }): a startSession
\* follows the destroySession call the reconnect timer made, and no other.
Continues(origin) == origin = "timer"

\* destroySession calls of reconnect timers that are awaiting client.destroy().
TimerDestroys(pd) ==
    SumPending([k \in Targets \X Origins |-> IF k[2] = "timer" THEN pd[k] ELSE 0], Targets)

\* One destroy() on target t, awaited by `origin`, has settled: that call no
\* longer waits, and the calls still waiting on t now wait on a client that is
\* gone.
SettledOn(pd, t, origin) ==
    LET less == [pd EXCEPT ![<<t, origin>>] = @ - 1]
    IN  IF t = Gone THEN less
        ELSE [k \in Targets \X Origins |->
                IF k[1] = t THEN 0
                ELSE IF k[1] = Gone THEN less[k] + less[<<t, k[2]>>]
                ELSE less[k]]

(* ----------------------- conversation memory --------------------------- *)

EmptyContext == [c \in {} |-> <<>>]

Turn(role, content) == [role |-> role, content |-> content]

\* Mutant of the truncation: the oldest turns are kept.
Truncate_KeepOldest(h) == IF Len(h) > MaxHistory THEN SubSeq(h, 1, MaxHistory) ELSE h

\* if (h.length > 10) h = h.slice(-10)
Truncate(h) ==
    IF Len(h) > MaxHistory THEN SubSeq(h, Len(h) - MaxHistory + 1, Len(h)) ELSE h

\* if (!this.userContext[id]) this.userContext[id] = [];
\* this.userContext[id].push(turn); then the truncation.
PushTurn(ctx, id, turn) ==
    [c \in DOMAIN ctx \cup {id} |->
        IF c = id
        THEN Truncate(Append(IF id \in DOMAIN ctx THEN ctx[id] ELSE <<>>, turn))
        ELSE ctx[c]]

\* Mutant: the mapping is wiped one correspondent late.
CleanupContext_OneLate(ctx) ==
    IF Cardinality(DOMAIN ctx) > MaxUsers + 1 THEN EmptyContext ELSE ctx

\* cleanupContext(): more than 50 correspondents, and the mapping is replaced
\* by an empty one.
CleanupContext(ctx) ==
    IF Cardinality(DOMAIN ctx) > MaxUsers THEN EmptyContext ELSE ctx

\* Mutant: the key is not looked at.
NoApiKey_Ignored(settings) == FALSE

\* !settings.openai_key
NoApiKey(settings) == settings.openai_key = ""

\* The turns appended for correspondent c since the mapping was last wiped.
AppendedFor(c) == IF c \in DOMAIN appended THEN appended[c] ELSE <<>>

InFlight(c) == IF c \in Deep THEN awaitingLlm[c] + awaitingSend[c] ELSE 0

RECURSIVE SumInFlight(_)
SumInFlight(S) ==
    IF S = {} THEN 0
    ELSE LET c == CHOOSE x \in S : TRUE IN InFlight(c) + SumInFlight(S \ {c})

Assistants(h) == Cardinality({i \in DOMAIN h : h[i].role = "assistant"})

\* The bounds on what is sent and received: a correspondent of Deep has room
\* for n more turns (those its handlers in flight may add counted in), and,
\* for an assistant turn, is below MaxAssistant; the others are written to in
\* order, each once while it is in the mapping.
HasRoom(c, n) == Len(AppendedFor(c)) + InFlight(c) + n <= MaxTurns

AssistantRoom(c) == Assistants(AppendedFor(c)) + InFlight(c) < MaxAssistant

Recipients(ctx) ==
    Deep \cup {f \in Fillers \ DOMAIN ctx : \A g \in Fillers \ DOMAIN ctx : f <= g}

\* The history of what was appended, kept beside an append and its cleanup.
Logged(log, c, turn, wiped) ==
    IF wiped THEN [d \in {} |-> <<>>]
    ELSE [d \in DOMAIN log \cup {c} |->
             IF d = c THEN Append(IF c \in DOMAIN log THEN log[c] ELSE <<>>, turn)
             ELSE log[d]]

\* generateReply: the messages handed to the completion provider are the
\* system entry followed by this.userContext[userId] || [].
PromptFor(ctx, userId) ==
    <<SystemPrompt>> \o (IF userId \in DOMAIN ctx THEN ctx[userId] ELSE <<>>)

\* Mutant: a reply is sent whatever generateReply returned.
HasReply_Always(produced) == TRUE

\* if (reply): produced says generateReply returned a non-empty text.
HasReply(produced) == produced

\* Mutant: the catch marks the session as failed.
AfterCatch_Failed(st) == "Failed"

\* catch (error) { console.error(...) }: the status is what it was.
AfterCatch(st) == st

\* this.refreshSettingsCache(): the snapshot is replaced by the table's rows.
RefreshSettingsCache(key) ==
    /\ ~thenStart
    /\ settingsCache' = [openai_key |-> key]
    /\ returned' = "none"
    /\ UNCHANGED <<life, counters, groq, userContext, awaitingLlm, awaitingSend, appended,
                   evicted, handed, outcome>>

\* 'message' -> handleIncomingMessage(msg), up to its first await: the status
\* filter, the user turn, the truncation, cleanupContext, the key check, and
\* generateReply up to its call of the completion provider.
OnMessage(from, isStatus, body) ==
    /\ ~thenStart
    /\ HasLive
    /\ returned' = "none"
    /\ UNCHANGED <<life, counters, groq, settingsCache, awaitingSend>>
    /\ IF from = StatusBroadcast \/ isStatus
       THEN UNCHANGED <<userContext, awaitingLlm, appended, evicted, handed, outcome>>
       ELSE LET turn == Turn("user", body)
                pushed == PushTurn(userContext, from, turn)
                kept == CleanupContext(pushed)
                wiped == Cardinality(DOMAIN kept) # Cardinality(DOMAIN pushed)
            IN  /\ userContext' = kept
                /\ evicted' = wiped
                /\ appended' = Logged(appended, from, turn, wiped)
                /\ IF NoApiKey(settingsCache)
                   THEN /\ HasRoom(from, 1)
                        /\ outcome' = "skipped"
                        /\ handed' = <<>>
                        /\ UNCHANGED awaitingLlm
                   ELSE /\ HasRoom(from, 2)
                        /\ AssistantRoom(from)
                        /\ SumInFlight(Deep) < MaxHandlers
                        /\ awaitingLlm' = [awaitingLlm EXCEPT ![from] = @ + 1]
                        /\ handed' = PromptFor(kept, from)
                        /\ outcome' = "asked"

\* 'message_create': a message of the account itself is an assistant turn of
\* the recipient, followed by the truncation and cleanupContext.
OnMessageCreate(to, fromMe, body) ==
    /\ ~thenStart
    /\ HasLive
    /\ returned' = "none"
    /\ UNCHANGED <<life, counters, groq, settingsCache, awaitingLlm, awaitingSend>>
    /\ IF ~fromMe
       THEN UNCHANGED <<userContext, appended, evicted, handed, outcome>>
       ELSE /\ to \in Deep => HasRoom(to, 1) /\ AssistantRoom(to)
            /\ handed' = <<>>
            /\ outcome' = "own"
            /\ LET turn == Turn("assistant", body)
                   pushed == PushTurn(userContext, to, turn)
                   wiped == Cardinality(DOMAIN CleanupContext(pushed))
                                # Cardinality(DOMAIN pushed)
               IN  /\ userContext' = CleanupContext(pushed)
                   /\ evicted' = wiped
                   /\ appended' = Logged(appended, to, turn, wiped)

\* The completion provider settles for one handler: with a reply the handler
\* calls msg.reply(reply) and waits; with none (generateReply caught an error
\* and returned null, or the completion was empty) it logs and ends.
CompletionSettle(from, produced) ==
    /\ ~thenStart
    /\ awaitingLlm[from] > 0
    /\ awaitingLlm' = [awaitingLlm EXCEPT ![from] = @ - 1]
    /\ awaitingSend' = IF HasReply(produced) THEN [awaitingSend EXCEPT ![from] = @ + 1]
                       ELSE awaitingSend
    /\ outcome' = IF produced THEN "sending" ELSE "noReply"
    /\ returned' = "none"
    /\ handed' = <<>>
    /\ UNCHANGED <<life, counters, groq, userContext, settingsCache, appended, evicted>>

\* msg.reply(reply) settles for one handler: sent, the reply is pushed onto
\* this.userContext[msg.from] and the history truncated (no cleanupContext);
\* the push throws when the key is gone, and that, like a failed send, is
\* caught and logged.
ReplySettle(from, sent) ==
    /\ ~thenStart
    /\ awaitingSend[from] > 0
    /\ sent => HasLive
    /\ awaitingSend' = [awaitingSend EXCEPT ![from] = @ - 1]
    /\ IF sent /\ from \in DOMAIN userContext
       THEN /\ userContext' = [userContext EXCEPT
                                 ![from] = Truncate(Append(@, Turn("assistant", ReplyText)))]
            /\ appended' = Logged(appended, from, Turn("assistant", ReplyText), FALSE)
            /\ outcome' = "recorded"
            /\ UNCHANGED status
       ELSE /\ outcome' = IF sent THEN "lostReply" ELSE "sendFailed"
            /\ status' = AfterCatch(status)
            /\ UNCHANGED <<userContext, appended>>
    /\ returned' = "none"
    /\ UNCHANGED <<client, qrCode, reconnectAttempts, reconnectTimeout, orphanTimers,
                   clients, initPending, pendingDestroy, thenStart>>
    /\ handed' = <<>>
    /\ UNCHANGED <<counters, groq, settingsCache, awaitingLlm, evicted>>

(* ------------------------------- Init ---------------------------------- *)

Init ==
    /\ status = "Offline"
    /\ client = NoClient
    /\ qrCode = "null"
    /\ reconnectAttempts = 0
    /\ reconnectTimeout = "null"
    /\ orphanTimers = 0
    /\ clients = {}
    /\ initPending = 0
    /\ pendingDestroy = [k \in Targets \X Origins |-> 0]
    /\ thenStart = FALSE
    /\ returned = "none"
    /\ discSinceReady = 0
    /\ timersSinceReady = 0
    /\ userContext = EmptyContext
    /\ settingsCache = [openai_key |-> ""]
    /\ awaitingLlm = [c \in Deep |-> 0]
    /\ awaitingSend = [c \in Deep |-> 0]
    /\ appended = [c \in {} |-> <<>>]
    /\ evicted = FALSE
    /\ handed = <<>>
    /\ outcome = "none"
    /\ modelsCache = [data |-> <<>>, timestamp |-> 0]
    /\ now = Boot
    /\ fetching = EmptyBag
    /\ result = [from |-> "none", list |-> <<>>]
    /\ lastFetched = [list |-> <<>>, at |-> 0]

(* --------------------------- startSession ------------------------------ *)

\* if (this.client) return;
StartIsNoOp(c) == c # NoClient

\* startSession() up to `await this.client.initialize()`.
StartBody ==
    IF StartIsNoOp(client)
    THEN UNCHANGED <<status, client, clients, initPending>>
    ELSE /\ FreeSlots(clients) # {}
         /\ initPending < MaxInits
         /\ status' = "Initializing..."
         /\ client' = NewSlot(clients)
         /\ clients' = clients \cup {NewSlot(clients)}
         /\ initPending' = initPending + 1

\* startSession() called by the application.
StartSession ==
    /\ UNCHANGED <<mem, groq>>
    /\ ~thenStart
    /\ StartBody
    /\ returned' = "none"
    /\ UNCHANGED <<qrCode, reconnectAttempts, reconnectTimeout, orphanTimers,
                   pendingDestroy, thenStart, counters>>

\* The queued .then(() => this.startSession()) of a fired reconnect timer runs.
ThenStartSession ==
    /\ UNCHANGED <<mem, groq>>
    /\ thenStart
    /\ StartBody
    /\ thenStart' = FALSE
    /\ returned' = "none"
    /\ UNCHANGED <<qrCode, reconnectAttempts, reconnectTimeout, orphanTimers,
                   pendingDestroy, counters>>

\* client.initialize() settles: nothing more on success, status 'Failed' on
\* rejection (this.client is kept).
InitSettle(ok) ==
    /\ UNCHANGED <<mem, groq>>
    /\ ~thenStart
    /\ initPending > 0
    /\ initPending' = initPending - 1
    /\ status' = IF ok THEN status ELSE "Failed"
    /\ returned' = "none"
    /\ UNCHANGED <<client, qrCode, reconnectAttempts, reconnectTimeout, orphanTimers,
                   clients, pendingDestroy, thenStart, counters>>

(* --------------------------- client events ----------------------------- *)

OnQr(qr) ==
    /\ UNCHANGED <<mem, groq>>
    /\ ~thenStart
    /\ HasLive
    /\ qrCode' = qr
    /\ status' = "QR Code Ready"
    /\ returned' = "none"
    /\ UNCHANGED <<client, reconnectAttempts, reconnectTimeout, orphanTimers, clients,
                   initPending, pendingDestroy, thenStart, counters>>

OnReady ==
    /\ UNCHANGED <<mem, groq>>
    /\ ~thenStart
    /\ HasLive
    /\ qrCode' = "null"
    /\ reconnectAttempts' = 0
    /\ status' = "Ready"
    /\ discSinceReady' = 0
    /\ timersSinceReady' = 0
    /\ returned' = "none"
    /\ UNCHANGED <<client, reconnectTimeout, orphanTimers, clients, initPending,
                   pendingDestroy, thenStart>>

OnAuthenticated ==
    /\ UNCHANGED <<mem, groq>>
    /\ ~thenStart
    /\ HasLive
    /\ status' = "Authenticated"
    /\ returned' = "none"
    /\ UNCHANGED <<client, qrCode, reconnectAttempts, reconnectTimeout, orphanTimers,
                   clients, initPending, pendingDestroy, thenStart, counters>>

OnAuthFailure ==
    /\ UNCHANGED <<mem, groq>>
    /\ ~thenStart
    /\ HasLive
    /\ status' = "Auth Failure"
    /\ qrCode' = "null"
    /\ returned' = "none"
    /\ UNCHANGED <<client, reconnectAttempts, reconnectTimeout, orphanTimers, clients,
                   initPending, pendingDestroy, thenStart, counters>>

\* The synchronous part of destroySession(): cancel the timer the handle names
\* (rt is the handle's state when the call is made) and, with a client present,
\* call client.destroy() and wait for it; with none, return.
DestroyBegin(rt, origin) ==
    /\ reconnectTimeout' = ClearTimeout(rt)
    /\ IF client # NoClient
       THEN /\ PendingTotal(pendingDestroy) < MaxDestroys
            /\ pendingDestroy' = [pendingDestroy EXCEPT ![<<client, origin>>] = @ + 1]
            /\ returned' = "none"
       ELSE /\ UNCHANGED pendingDestroy
            /\ returned' = origin

\* 'disconnected': below the cap count the attempt and schedule a reconnect
\* timer (the previous handle is overwritten, not cancelled); at the cap give
\* up and start the teardown.
OnDisconnected ==
    /\ UNCHANGED <<mem, groq>>
    /\ ~thenStart
    /\ HasLive
    /\ discSinceReady' = Min(discSinceReady + 1, MaxDiscCount)
    /\ IF CanReconnect(reconnectAttempts)
       THEN /\ reconnectAttempts' = NextAttempts(reconnectAttempts)
            /\ status' = "Reconnecting in 10s..."
            /\ IF reconnectTimeout = "pending"
               THEN /\ orphanTimers < MaxOrphans
                    /\ orphanTimers' = orphanTimers + 1
               ELSE UNCHANGED orphanTimers
            /\ reconnectTimeout' = "pending"
            /\ timersSinceReady' = Min(timersSinceReady + 1, MaxDiscCount)
            /\ returned' = "none"
            /\ UNCHANGED pendingDestroy
       ELSE /\ status' = "Offline (Max Retries)"
            /\ DestroyBegin(reconnectTimeout, "max")
            /\ UNCHANGED <<reconnectAttempts, orphanTimers, timersSinceReady>>
    /\ UNCHANGED <<client, qrCode, clients, initPending, thenStart>>

(* -------------------------- destroySession ----------------------------- *)

\* destroySession() called by the application.
DestroySession ==
    /\ UNCHANGED <<mem, groq>>
    /\ ~thenStart
    /\ DestroyBegin(reconnectTimeout, "call")
    /\ UNCHANGED <<status, client, qrCode, reconnectAttempts, orphanTimers, clients,
                   initPending, thenStart, counters>>

\* A reconnect timer fires: destroySession().then(() => startSession()).  The
\* timer is the one the handle names (orphan = FALSE) or an overwritten one.
\* With no client destroySession returns at once and the .then is queued.
TimerFire(orphan) ==
    /\ UNCHANGED <<mem, groq>>
    /\ ~thenStart
    /\ IF orphan
       THEN /\ orphanTimers > 0
            /\ orphanTimers' = orphanTimers - 1
            /\ DestroyBegin(reconnectTimeout, "timer")
       ELSE /\ reconnectTimeout = "pending"
            /\ UNCHANGED orphanTimers
            /\ DestroyBegin("done", "timer")
    /\ thenStart' = (client = NoClient)
    /\ UNCHANGED <<status, client, qrCode, reconnectAttempts, clients, initPending,
                   counters>>

\* client.destroy() settles for one waiting destroySession call.  Resolved or
\* rejected (the rejection is caught and logged), the call goes on the same
\* way: the reference and the code are cleared, the status is 'Offline', and
\* the call returns; the timer's .then is queued.
DestroySettle(t, origin) ==
    /\ UNCHANGED <<mem, groq>>
    /\ ~thenStart
    /\ pendingDestroy[<<t, origin>>] > 0
    /\ pendingDestroy' = SettledOn(pendingDestroy, t, origin)
    /\ clients' = clients \ {t}
    /\ client' = NoClient
    /\ qrCode' = "null"
    /\ status' = "Offline"
    /\ returned' = origin
    /\ thenStart' = Continues(origin)
    /\ UNCHANGED <<reconnectAttempts, reconnectTimeout, orphanTimers, initPending,
                   counters>>

(* --------------------------- getGroqModels ----------------------------- *)

\* Mutant: a cached list is still served when it is exactly one hour old.
Fresh_Inclusive(cache, t) == Len(cache.data) > 0 /\ t - cache.timestamp <= Hour

\* this.modelsCache.data.length > 0 && (now - this.modelsCache.timestamp) < 3600000
Fresh(cache, t) == Len(cache.data) > 0 /\ t - cache.timestamp < Hour

\* Mutant: whatever was fetched is cached.
Cacheable_Any(models) == TRUE

\* if (models.length > 0)
Cacheable(models) == Len(models) > 0

\* Date.now() has moved on.
Tick(t) ==
    /\ t > now
    /\ now' = t
    /\ returned' = "none"
    /\ UNCHANGED <<life, counters, mem, modelsCache, fetching, result, lastFetched>>

\* getGroqModels(apiKey) up to its first await: a fresh cached list is
\* returned; otherwise the provider is called, the call time kept in `now`.
GetGroqModels ==
    /\ IF Fresh(modelsCache, now)
       THEN /\ result' = [from |-> "cache", list |-> modelsCache.data]
            /\ UNCHANGED fetching
       ELSE /\ BagCardinality(fetching) < MaxFetches
            /\ fetching' = fetching (+) SetToBag({now})
            /\ result' = [from |-> "call", list |-> <<>>]
    /\ returned' = "none"
    /\ UNCHANGED <<life, counters, mem, modelsCache, now, lastFetched>>

\* The provider settles for the call made at time `at`: a rejection (of fetch
\* or of response.json()) is caught and [] returned; a list is returned, and
\* a non-empty one replaces the cache entry, stamped with the call time.
FetchSettle(at, out) ==
    /\ BagIn(at, fetching)
    /\ fetching' = fetching (-) SetToBag({at})
    /\ IF ~out.ok
       THEN /\ result' = [from |-> "provider", list |-> <<>>]
            /\ UNCHANGED <<modelsCache, lastFetched>>
       ELSE /\ result' = [from |-> "provider", list |-> out.list]
            /\ IF Cacheable(out.list)
               THEN modelsCache' = [data |-> out.list, timestamp |-> at]
               ELSE UNCHANGED modelsCache
            /\ IF Len(out.list) > 0
               THEN lastFetched' = [list |-> out.list, at |-> at]
               ELSE UNCHANGED lastFetched
    /\ returned' = "none"
    /\ UNCHANGED <<life, counters, mem, now>>

(* ------------------------------- Next ---------------------------------- *)

QrCodes == {"qr1"}

Next ==
    \/ StartSession
    \/ ThenStartSession
    \/ \E ok \in BOOLEAN : InitSettle(ok)
    \/ \E qr \in QrCodes : OnQr(qr)
    \/ OnReady
    \/ OnAuthenticated
    \/ OnAuthFailure
    \/ OnDisconnected
    \/ DestroySession
    \/ \E orphan \in BOOLEAN : TimerFire(orphan)
    \/ \E t \in Targets, o \in Origins : DestroySettle(t, o)

Spec == Init /\ [][Next]_vars

\* The lifecycle with what its scheduling brings about: a pending timer fires,
\* an awaited client.destroy() settles, a queued .then callback runs.
Fairness ==
    /\ \A orphan \in BOOLEAN : SF_vars(TimerFire(orphan))
    /\ \A o \in Origins : SF_vars(\E t \in Targets : DestroySettle(t, o))
    /\ WF_vars(ThenStartSession)

SpecLive == Spec /\ Fairness

\* The conversation memory of a started session.
NextMem ==
    \/ StartSession
    \/ \E key \in ApiKeys : RefreshSettingsCache(key)
    \/ \E from \in Deep \cup {StatusBroadcast}, isStatus \in BOOLEAN, body \in Bodies :
          OnMessage(from, isStatus, body)
    \/ \E to \in Recipients(userContext), fromMe \in BOOLEAN, body \in Bodies :
          OnMessageCreate(to, fromMe, body)
    \/ \E from \in Deep, produced \in BOOLEAN : CompletionSettle(from, produced)
    \/ \E from \in Deep, sent \in BOOLEAN : ReplySettle(from, sent)

SpecMem == Init /\ [][NextMem]_vars

\* 'message' from a correspondent that has sent fewer than MaxIsoTurns.
IsoMessage(from, body) ==
    /\ Cardinality({i \in DOMAIN AppendedFor(from) : AppendedFor(from)[i].role = "user"})
          < MaxIsoTurns
    /\ OnMessage(from, FALSE, body)

\* A session's lifecycle together with the handling of its inbound messages.
NextIso ==
    \/ StartSession
    \/ ThenStartSession
    \/ \E ok \in BOOLEAN : InitSettle(ok)
    \/ \E qr \in QrCodes : OnQr(qr)
    \/ OnReady
    \/ OnAuthenticated
    \/ OnAuthFailure
    \/ OnDisconnected
    \/ \E orphan \in BOOLEAN : TimerFire(orphan)
    \/ \E t \in Targets, o \in Origins : DestroySettle(t, o)
    \/ \E key \in ApiKeys : RefreshSettingsCache(key)
    \/ \E from \in Deep, body \in Bodies : IsoMessage(from, body)
    \/ \E from \in Deep, produced \in BOOLEAN : CompletionSettle(from, produced)
    \/ \E from \in Deep, sent \in BOOLEAN : ReplySettle(from, sent)

SpecIso == Init /\ [][NextIso]_vars

\* The cache of the provider's model list.
NextGroq ==
    \/ \E t \in Times : Tick(t)
    \/ GetGroqModels
    \/ \E at \in Times, out \in FetchOutcomes : FetchSettle(at, out)

SpecGroq == Init /\ [][NextGroq]_vars

(* ============================== claims ================================= *)

(* C1: for every correspondent the stored history has at most 10 turns,    *)
(* and they are the turns most recently appended for it (by inbound        *)
(* messages, own messages and auto-replies), in the order they were        *)
(* appended: the last min(10, n) of the n turns appended since the mapping *)
(* was last wiped; a correspondent with none of them has no entry.         *)
C1_RecentTurnsInOrder ==
    \A c \in Correspondents :
        IF c \in DOMAIN userContext
        THEN LET n == Len(AppendedFor(c))
                 k == IF n < 10 THEN n ELSE 10
             IN  /\ Len(userContext[c]) <= 10
                 /\ n > 0
                 /\ userContext[c] = SubSeq(AppendedFor(c), n - k + 1, n)
        ELSE AppendedFor(c) = <<>>

\* Twelve turns were appended for one correspondent, the last an auto-reply:
\* ten are stored, the oldest two are gone.
C1_Witness ==
    /\ 0 \in DOMAIN userContext
    /\ Len(AppendedFor(0)) = 12
    /\ AppendedFor(0)[12] = Turn("assistant", ReplyText)
    /\ Len(userContext[0]) = 10
    /\ userContext[0][1] = AppendedFor(0)[3]

(* C2: an append that brings the number of correspondents to 51 is         *)
(* followed by a cleanup that replaces the whole mapping by an empty one   *)
(* (the correspondent just appended included); with 50 or fewer the        *)
(* cleanup changes nothing; so the mapping never holds more than 50 keys.  *)
C2_WipeAboveFifty ==
    /\ [](Cardinality(DOMAIN userContext) <= 50)
    /\ [][\A c \in Recipients(userContext), body \in Bodies :
            ((c \in Deep /\ OnMessage(c, FALSE, body)) \/ OnMessageCreate(c, TRUE, body))
               => IF Cardinality(DOMAIN userContext \cup {c}) > 50
                  THEN userContext' = EmptyContext
                  ELSE /\ DOMAIN userContext' = DOMAIN userContext \cup {c}
                       /\ \A d \in DOMAIN userContext \ {c} :
                              userContext'[d] = userContext[d]
         ]_vars

\* The latest append made 51 correspondents, and the mapping is empty.
C2_Witness == evicted /\ DOMAIN userContext = {}

(* C3: reconnectAttempts is set to 0 by the ready event and by nothing     *)
(* else, is incremented by exactly 1 by each disconnected event that finds *)
(* it below 5, is left unchanged by a disconnected event at the cap and by *)
(* every other operation, and always stays in 0..5.                        *)
C3_AttemptsCounter ==
    /\ [](reconnectAttempts \in 0..5)
    /\ [][/\ reconnectAttempts' \in 0..5
          \* no ready event leaves it other than 0
          /\ ~(reconnectAttempts' # 0 /\ OnReady)
          \* no disconnected event below the cap does other than add 1
          /\ ~(/\ reconnectAttempts < 5
               /\ reconnectAttempts' # reconnectAttempts + 1
               /\ OnDisconnected)
          \* no disconnected event at the cap changes it
          /\ ~(/\ reconnectAttempts >= 5
               /\ reconnectAttempts' # reconnectAttempts
               /\ OnDisconnected)
          \* only these two events change it, and only ready resets it
          /\ reconnectAttempts' # reconnectAttempts => (OnReady \/ OnDisconnected)
          /\ (reconnectAttempts' = 0 /\ reconnectAttempts # 0) => OnReady
         ]_vars

\* A disconnected event has found the counter at the cap and left it there.
C3_Witness == reconnectAttempts = 5 /\ discSinceReady > 5

(* C4, as claimed: after the 5th consecutive disconnected event with no    *)
(* ready in between the status is 'Offline (Max Retries)'.                 *)
C4_FifthGoesOffline ==
    [][(OnDisconnected /\ discSinceReady' = 5)
          => status' = "Offline (Max Retries)"]_vars

(* C4, amended: starting from reconnectAttempts = 0, each of the first     *)
(* five consecutive disconnected events sets the status to 'Reconnecting   *)
(* in 10s...' and schedules a reconnect timer; the 6th (and any later one) *)
(* with no ready in between sets the status to 'Offline (Max Retries)' and *)
(* schedules no reconnect timer.                                           *)
C4_SixthGoesOffline ==
    [][/\ (OnDisconnected /\ discSinceReady' <= 5)
            => /\ status' = "Reconnecting in 10s..."
               /\ reconnectTimeout' = "pending"
               /\ timersSinceReady' = timersSinceReady + 1
       /\ (OnDisconnected /\ discSinceReady' >= 6)
            => /\ status' = "Offline (Max Retries)"
               /\ timersSinceReady' = timersSinceReady
               /\ TimersOutstanding' <= TimersOutstanding
      ]_vars

\* The 6th consecutive disconnected event has just been handled.
C4_Witness ==
    /\ discSinceReady = 6
    /\ status = "Offline (Max Retries)"
    /\ timersSinceReady = 5

(* C5: once the reconnect budget is exhausted and the resulting teardown   *)
(* has completed, the status is 'Offline (Max Retries)', the client        *)
(* reference is null and no reconnect timer is pending.                    *)
C5_RestsOfflineMaxRetries ==
    returned = "max"
        => /\ status = "Offline (Max Retries)"
           /\ client = NoClient
           /\ TimersOutstanding = 0

(* C6: between two consecutive ready events (or from startup to the first  *)
(* ready) at most 5 reconnect timers are scheduled, whatever the           *)
(* interleaving of events, timer firings, startSession and destroySession. *)
C6_AtMostFiveTimers == timersSinceReady <= 5

\* Five timers were scheduled with no ready in between, the first of them fired.
C6_Witness == timersSinceReady = 5 /\ clients # {} /\ reconnectTimeout = "pending"

(* C7: at most one reconnect timer is outstanding in every reachable state. *)
C7_OneTimerOutstanding == TimersOutstanding <= 1

(* C8: when a destroySession call completes, no reconnect timer is pending. *)
C8_NoTimerAfterDestroy == returned # "none" => TimersOutstanding = 0

(* C9: when a destroySession call completes (also one made with no client  *)
(* present), the client reference is null, the stored code is null and the *)
(* status is 'Offline'.                                                    *)
C9_DestroyedIsOffline ==
    returned # "none"
        => /\ client = NoClient
           /\ qrCode = "null"
           /\ status = "Offline"

(* C10: startSession is a no-op whenever a client exists (status, client,  *)
(* code, counter and timer unchanged, no second client constructed), so at *)
(* most one messaging client exists at any time.                           *)
C10_SingleClient ==
    /\ [](Cardinality(clients) <= 1)
    /\ [][(StartSession /\ client # NoClient)
             => UNCHANGED <<status, client, qrCode, reconnectAttempts,
                            reconnectTimeout, orphanTimers, clients>>]_vars

(* C11: after client.initialize() has failed (status 'Failed'), a manual   *)
(* startSession() call begins a new initialization attempt: the status     *)
(* becomes 'Initializing...' and initialize is invoked again.  (The room   *)
(* for one more client and one more pending initialize is the model's.)    *)
C11_RestartAfterFailed ==
    (status = "Failed" /\ ~thenStart /\ FreeSlots(clients) # {} /\ initPending < MaxInits)
        => ENABLED (/\ StartSession
                    /\ status' = "Initializing..."
                    /\ initPending' = initPending + 1)

(* C12: a getGroqModels call made less than 3,600,000 ms after the call    *)
(* that last fetched a non-empty list returns that list from the cache and *)
(* does not invoke the provider; a call made 3,600,000 ms or more after    *)
(* the cached timestamp invokes the provider again.                        *)
C12_CacheWithinHour ==
    [][GetGroqModels =>
         /\ (Len(lastFetched.list) > 0 /\ now - lastFetched.at < 3600000)
               => /\ result' = [from |-> "cache", list |-> lastFetched.list]
                  /\ fetching' = fetching
         /\ (Len(modelsCache.data) > 0 /\ now - modelsCache.timestamp >= 3600000)
               => /\ result'.from = "call"
                  /\ BagCardinality(fetching') = BagCardinality(fetching) + 1
      ]_vars

\* A call made 3,599,999 ms after the one that filled the cache was served
\* from the cache.
C12_Witness ==
    /\ result.from = "cache"
    /\ result.list = lastFetched.list
    /\ now - lastFetched.at = 3599999

(* C13: when the provider fails or answers with an empty list,             *)
(* getGroqModels returns an empty list and leaves the cache entry (data    *)
(* and timestamp) as it was; the cache only ever holds the list and call   *)
(* time of a fetch of a non-empty list, and a call that finds the cache    *)
(* cold invokes the provider.                                              *)
C13_FailureLeavesCache ==
    /\ [](/\ modelsCache.data = lastFetched.list
          /\ modelsCache.timestamp = lastFetched.at)
    /\ [][/\ \A at \in Times, out \in FetchOutcomes :
                (FetchSettle(at, out) /\ (~out.ok \/ out.list = <<>>))
                   => /\ result' = [from |-> "provider", list |-> <<>>]
                      /\ modelsCache' = modelsCache
          /\ (GetGroqModels /\ modelsCache.data = <<>>)
                => /\ result'.from = "call"
                   /\ BagCardinality(fetching') = BagCardinality(fetching) + 1
         ]_vars

\* A refresh of a stale entry has failed: an empty list was returned and the
\* stale entry is still there.
C13_Witness ==
    /\ result = [from |-> "provider", list |-> <<>>]
    /\ Len(modelsCache.data) > 0
    /\ now - modelsCache.timestamp >= 3600000

(* C20: under any interleaving of getGroqModels calls the cache entry is   *)
(* only ever replaced by a non-empty list, its data is non-empty exactly   *)
(* when its timestamp is non-zero, and its timestamp never decreases.      *)
C20_CacheMonotonic ==
    /\ []((Len(modelsCache.data) > 0) <=> (modelsCache.timestamp # 0))
    /\ [][/\ modelsCache' # modelsCache => Len(modelsCache'.data) > 0
          /\ modelsCache'.timestamp >= modelsCache.timestamp
         ]_vars

(* C14: when the settings snapshot has no API key, handling an inbound     *)
(* message makes no completion-provider call, sends no reply and appends   *)
(* no assistant turn: the inbound user turn is all that is recorded (and   *)
(* is the last turn of its correspondent unless the append made the        *)
(* cleanup wipe the mapping).                                              *)
C14_NoKeyNoReply ==
    [][\A c \in Deep, body \in Bodies :
          (OnMessage(c, FALSE, body) /\ settingsCache.openai_key = "")
             => /\ awaitingLlm' = awaitingLlm
                /\ awaitingSend' = awaitingSend
                /\ handed' = <<>>
                /\ \A d \in DOMAIN userContext' :
                      /\ d # c => (d \in DOMAIN userContext
                                     /\ userContext'[d] = userContext[d])
                      /\ d = c => /\ userContext'[d][Len(userContext'[d])]
                                        = [role |-> "user", content |-> body]
                                  /\ Assistants(userContext'[d])
                                        <= IF d \in DOMAIN userContext
                                           THEN Assistants(userContext[d]) ELSE 0
      ]_vars

\* A message was handled without a key: its user turn is the last of the
\* history, and no handler is waiting for the provider or for a send.
C14_Witness ==
    /\ outcome = "skipped"
    /\ settingsCache.openai_key = ""
    /\ 0 \in DOMAIN userContext
    /\ userContext[0][Len(userContext[0])].role = "user"
    /\ Assistants(userContext[0]) = 1
    /\ awaitingLlm[0] + awaitingSend[0] = 0

(* C15: when the completion call ends without a reply (generateReply has   *)
(* caught the provider's failure and returned null), no reply is sent, no  *)
(* turn is appended, the handler ends, and status, client and reconnect    *)
(* counter are unchanged; a later message is handled as usual: with a key  *)
(* set it goes to the completion provider.  (The room for one more         *)
(* exchange is the model's.)                                               *)
C15_FailedCompletionIsLocal ==
    /\ [][\A c \in Deep :
            CompletionSettle(c, FALSE)
               => /\ awaitingSend' = awaitingSend
                  /\ awaitingLlm'[c] = awaitingLlm[c] - 1
                  /\ userContext' = userContext
                  /\ UNCHANGED <<status, client, reconnectAttempts>>
         ]_vars
    /\ []((/\ outcome = "noReply"
           /\ HasLive
           /\ settingsCache.openai_key # ""
           /\ HasRoom(0, 2) /\ AssistantRoom(0) /\ SumInFlight(Deep) < MaxHandlers)
             => ENABLED (/\ OnMessage(0, FALSE, "hi")
                         /\ outcome' = "asked"
                         /\ awaitingLlm'[0] = awaitingLlm[0] + 1))

\* A completion call has just failed for a correspondent with a history, and
\* a further message of it can be taken.
C15_Witness ==
    /\ outcome = "noReply"
    /\ HasLive
    /\ settingsCache.openai_key # ""
    /\ 0 \in DOMAIN userContext
    /\ Len(userContext[0]) = 10
    /\ HasRoom(0, 2) /\ AssistantRoom(0)
    /\ awaitingLlm[0] + awaitingSend[0] = 0

(* C17: every auto-reply that was produced and sent is then appended as an *)
(* assistant turn under the correspondent it was sent to, whatever         *)
(* happened to the mapping since the inbound message arrived.              *)
C17_SentReplyIsRecorded ==
    [][\A c \in Deep :
          ReplySettle(c, TRUE)
             => /\ c \in DOMAIN userContext'
                /\ userContext'[c][Len(userContext'[c])]
                      = [role |-> "assistant", content |-> ReplyText]
      ]_vars

(* C19: every message list handed to the completion provider is one system *)
(* entry followed by the correspondent's stored history, oldest first (at  *)
(* most 11 entries), and the last entry of that history is the user turn   *)
(* of the inbound message being answered.                                  *)
C19_PromptEndsWithUserTurn ==
    outcome = "asked"
        => LET history == SubSeq(handed, 2, Len(handed))
           IN  /\ handed[1] = SystemPrompt
               /\ Len(handed) <= 11
               /\ history = (IF 0 \in DOMAIN userContext THEN userContext[0] ELSE <<>>)
               /\ Len(history) > 0
               /\ history[Len(history)] = [role |-> "user", content |-> "hi"]

C18_TimerRestartsSession ==
    /\ \/ []<>((TimersOutstanding = 0)
                 \/ (thenStart /\ (FreeSlots(clients) = {} \/ initPending >= MaxInits)))
       \/ []<><<\E orphan \in BOOLEAN : TimerFire(orphan)>>_vars
    /\ (TimerDestroys(pendingDestroy) > 0)
          ~> (thenStart /\ returned = "timer" /\ client = NoClient)
    /\ thenStart
          ~> \/ /\ ~thenStart
                /\ status = "Initializing..."
                /\ client # NoClient
                /\ client \in clients
             \/ (thenStart /\ (FreeSlots(clients) = {} \/ initPending >= MaxInits))
    /\ [][/\ (\E orphan \in BOOLEAN : TimerFire(orphan))
                => \/ TimerDestroys(pendingDestroy') = TimerDestroys(pendingDestroy) + 1
                   \/ (thenStart' /\ client = NoClient)
          /\ \A t \in Targets :
                DestroySettle(t, "timer")
                   => /\ t \notin clients'
                      /\ client' = NoClient
                      /\ thenStart'
          /\ ThenStartSession
                => /\ client = NoClient
                   /\ returned = "timer"
                   /\ status' = "Initializing..."
                   /\ client' \notin clients
                   /\ client' \in clients'
         ]_vars

\* The session was restarted by a reconnect timer: the step before was the
\* startSession that followed the timer's destroySession.
C18_Witness ==
    /\ status = "Initializing..."
    /\ client # NoClient
    /\ reconnectAttempts = 1
    /\ discSinceReady = 1
    /\ reconnectTimeout = "done"
    /\ initPending = 2
    /\ Cardinality(clients) = 1

====
